---------------------------- MODULE Spec2Model ----------------------------
(***************************************************************************)
(* Model of the recommendation pipeline of projectRec.cpp (namespace       *)
(* RecSys): cosineSimilarity, computeWorkScore, recommendContentBased,     *)
(* recommendCollaborative, combineRecommendations and                      *)
(* getRandomizedRecommendations, and the order main() calls them in.       *)
(*                                                                         *)
(* Numbers.  A C++ double is modelled as a fixed-point integer counting    *)
(* 1/Scale units (100 is 1.0).  randomFactor is the exception: it is kept  *)
(* as a count of 1/RFDen units (quarters), which doubles represent         *)
(* exactly, so that int(numRecommendations * randomFactor) is computed     *)
(* without rounding.  A pair<string,double> is a record [first, second].   *)
(***************************************************************************)
EXTENDS Integers, Sequences, FiniteSets, TLC

\* ------------------------------------------------------------------ bounds
\* Longest ranked list handed to getRandomizedRecommendations.
MaxRecs == 3
\* Largest numRecommendations requested.
MaxNum == 4

\* ----------------------------------------------------------- number model
\* One unit of a modelled double is 1/Scale.
Scale == 100
\* One unit of randomFactor is 1/RFDen.
RFDen == 4

Min(a, b) == IF a <= b THEN a ELSE b
Max(a, b) == IF a >= b THEN a ELSE b

\* static_cast<int>(x) of the double a/b (b > 0): truncation toward zero.
StaticCastInt(a, b) == IF a >= 0 THEN a \div b ELSE -((-a) \div b)

\* i < static_cast<size_t>(x) for an index i >= 0 and an int x.  A negative x
\* converts to 2^64 + x, which is above every index of a list in the model.
SizeTLess(i, x) == IF x < 0 THEN TRUE ELSE i < x

\* ------------------------------------------------------------------ state
VARIABLES
    pc,                  \* the call main() is about to make
    userProfile,         \* RecSys::UserProfile: [tags]
    works,               \* vector<Work>
    similarUsers,        \* vector<SimilarUser>
    metricsConfig,       \* RecSys::MetricsConfig
    numRecommendations,  \* int
    randomFactor,        \* double, in 1/RFDen
    contentWeight,       \* argument of combineRecommendations
    collabWeight,        \* argument of combineRecommendations
    contentRecs,         \* result of recommendContentBased
    collabRecs,          \* result of recommendCollaborative
    combinedRecs,        \* result of combineRecommendations
    finalRecs,           \* result of getRandomizedRecommendations
    cos                  \* locals and result of one cosineSimilarity call

vars == << pc, userProfile, works, similarUsers, metricsConfig,
           numRecommendations, randomFactor, contentWeight, collabWeight,
           contentRecs, collabRecs, combinedRecs, finalRecs, cos >>

\* --------------------------------------------------------------- sequences
Remove(s, i) == SubSeq(s, 1, i - 1) \o SubSeq(s, i + 1, Len(s))

\* std::shuffle: every arrangement of s is a possible outcome.
RECURSIVE Shuffle(_)
Shuffle(s) ==
    IF Len(s) = 0 THEN { << >> }
    ELSE UNION { { << s[i] >> \o t : t \in Shuffle(Remove(s, i)) } : i \in 1..Len(s) }

\* Number of positions of s holding e.
Count(s, e) == Cardinality({ i \in 1..Len(s) : s[i] = e })

Ids(s) == { s[i].first : i \in 1..Len(s) }
UniqueIds(s) == \A i, j \in 1..Len(s) : s[i].first = s[j].first => i = j

\* All sequences over S of length at most n.
SeqUpTo(S, n) == UNION { [1..k -> S] : k \in 0..n }

\* ------------------------------------------ getRandomizedRecommendations
numRandomOf(n, rf) == StaticCastInt(n * rf, RFDen)
numTopOf(n, rf) == n - numRandomOf(n, rf)

\* Variant of TopLoop whose bound is off by one (i <= numTop).
RECURSIVE TopLoopOffByOne(_, _, _, _)
TopLoopOffByOne(recs, numTop, i, acc) ==
    IF SizeTLess(i, numTop + 1) /\ i < Len(recs)
    THEN TopLoopOffByOne(recs, numTop, i + 1, Append(acc, recs[i + 1]))
    ELSE acc

\* for (size_t i = 0; i < static_cast<size_t>(numTop) && i < recs.size(); i++)
\*     finalRecs.push_back(recs[i]);
RECURSIVE TopLoop(_, _, _, _)
TopLoop(recs, numTop, i, acc) ==
    IF SizeTLess(i, numTop) /\ i < Len(recs)
    THEN TopLoop(recs, numTop, i + 1, Append(acc, recs[i + 1]))
    ELSE acc

\* Variant of RemainingLoop that collects the entries ranked below numTop.
RECURSIVE RemainingLoopTail(_, _, _, _)
RemainingLoopTail(recs, numTop, i, acc) ==
    IF i < Len(recs)
    THEN RemainingLoopTail(recs, numTop, i + 1,
                           IF i >= numTop THEN Append(acc, recs[i + 1]) ELSE acc)
    ELSE acc

\* for (int i = 0; i < numTop && i < static_cast<int>(recs.size()); i++)
\*     remaining.push_back(recs[i]);
RECURSIVE RemainingLoop(_, _, _, _)
RemainingLoop(recs, numTop, i, acc) ==
    IF i < numTop /\ i < Len(recs)
    THEN RemainingLoop(recs, numTop, i + 1, Append(acc, recs[i + 1]))
    ELSE acc

\* Variant of RandomLoop that ignores numRandom.
RECURSIVE RandomLoopAll(_, _, _, _)
RandomLoopAll(remaining, numRandom, i, acc) ==
    IF i < Len(remaining)
    THEN RandomLoopAll(remaining, numRandom, i + 1, Append(acc, remaining[i + 1]))
    ELSE acc

\* for (int i = 0; i < numRandom && i < static_cast<int>(remaining.size()); i++)
\*     finalRecs.push_back(remaining[i]);
RECURSIVE RandomLoop(_, _, _, _)
RandomLoop(remaining, numRandom, i, acc) ==
    IF i < numRandom /\ i < Len(remaining)
    THEN RandomLoop(remaining, numRandom, i + 1, Append(acc, remaining[i + 1]))
    ELSE acc

\* if (numRecommendations <= 0) return {};
EarlyReturn(n) == n <= 0

\* The set of sequences the call can return, one per outcome of the shuffles.
getRandomizedRecommendations(recs, n, rf) ==
    IF EarlyReturn(n) THEN { << >> }
    ELSE LET numRandom == numRandomOf(n, rf)
             numTop    == numTopOf(n, rf)
             top       == TopLoop(recs, numTop, 0, << >>)
             remaining == RemainingLoop(recs, numTop, 0, << >>)
         IN UNION { Shuffle(RandomLoop(r, numRandom, 0, top)) : r \in Shuffle(remaining) }

\* Step 4 of main(): the randomized final list.
Randomize ==
    /\ pc = "randomize"
    /\ finalRecs' \in getRandomizedRecommendations(combinedRecs, numRecommendations,
                                                   randomFactor)
    /\ pc' = "done"
    /\ UNCHANGED << userProfile, works, similarUsers, metricsConfig,
                    numRecommendations, randomFactor, contentWeight, collabWeight,
                    contentRecs, collabRecs, combinedRecs, cos >>

\* ---- inputs of getRandomizedRecommendations
RecIds == { "a", "b", "c" }
\* A ranked list: any ids, scores falling by Scale per rank.
RankedList(ids) == [ i \in 1..Len(ids) |-> [first |-> ids[i],
                                            second |-> Scale * (Len(ids) + 1 - i)] ]
RankedLists == { RankedList(ids) : ids \in SeqUpTo(RecIds, MaxRecs) }
\* randomFactor from -1.0 to 2.0 in quarters.
RandomFactors == (0 - RFDen)..(2 * RFDen)

NoProfile == [tags |-> << >>]
NoConfig == [useMetrics |-> FALSE, weightViews |-> 0, weightTime |-> 0, weightTags |-> 0]
NoCos == [dot |-> 0, normUser |-> 0, normWork |-> 0, ret |-> 0]

InitRand ==
    /\ pc = "randomize"
    /\ combinedRecs \in RankedLists
    /\ numRecommendations \in (0 - 1)..MaxNum
    /\ randomFactor \in RandomFactors
    /\ userProfile = NoProfile /\ works = << >> /\ similarUsers = << >>
    /\ metricsConfig = NoConfig
    /\ contentWeight = 0 /\ collabWeight = 0
    /\ contentRecs = << >> /\ collabRecs = << >>
    /\ finalRecs = << >>
    /\ cos = NoCos

SpecRand == InitRand /\ [][Randomize]_vars


\* ------------------------------------------------------ maps and sorting
\* Fixed-point product of two doubles.  Variant that drops the weight:
MulIgnoreWeight(a, b) == b

\* a * b on doubles.
Mul(a, b) == (a * b) \div Scale

\* a / b on doubles, b # 0.
Div(a, b) == (a * Scale) \div b

\* Variant of MapAdd that assigns instead of accumulating (= for +=).
MapSet(map, k, v) ==
    [ x \in DOMAIN map \cup { k } |-> IF x = k THEN v ELSE map[x] ]

\* map[k] += v on an unordered_map<string,double>: a missing key is first
\* inserted with value 0.
MapAdd(map, k, v) ==
    [ x \in DOMAIN map \cup { k } |->
        (IF x \in DOMAIN map THEN map[x] ELSE 0) + (IF x = k THEN v ELSE 0) ]

EmptyMap == [ x \in {} |-> 0 ]

\* vector<pair<string,double>> recs(map.begin(), map.end()): the entries of
\* the map in the unspecified iteration order of unordered_map.
RECURSIVE SetToSeq(_)
SetToSeq(S) ==
    IF S = {} THEN << >>
    ELSE LET e == CHOOSE x \in S : TRUE IN << e >> \o SetToSeq(S \ { e })
MapEntries(map) == SetToSeq({ [first |-> k, second |-> map[k]] : k \in DOMAIN map })

\* Variant of the comparator that orders ascending.
ByScoreAscending(a, b) == a.second < b.second

\* [](auto &a, auto &b) { return a.second > b.second; }
ByScoreDescending(a, b) == a.second > b.second

\* s is ordered by the comparator: no later element goes before an earlier one.
Ordered(s) == \A i, j \in 1..Len(s) : i < j => ~ByScoreDescending(s[j], s[i])

\* std::sort(recs.begin(), recs.end(), comparator): an arrangement of recs
\* ordered by the comparator; elements that compare equivalent land in any
\* order (the sort is not stable, and the map's order is unspecified).
Sort(s) == { p \in Shuffle(s) : Ordered(p) }

\* ------------------------------------------------ combineRecommendations
\* for (const auto &p : list) combined[p.first] += weight * p.second;
RECURSIVE CombineLoop(_, _, _, _)
CombineLoop(combined, list, weight, i) ==
    IF i > Len(list) THEN combined
    ELSE CombineLoop(MapAdd(combined, list[i].first, Mul(weight, list[i].second)),
                     list, weight, i + 1)

\* The map built by the two loops.
CombinedMap(content, collab, cw, lw) ==
    CombineLoop(CombineLoop(EmptyMap, content, cw, 1), collab, lw, 1)

\* The set of lists the call can return.
combineRecommendations(content, collab, cw, lw) ==
    Sort(MapEntries(CombinedMap(content, collab, cw, lw)))

\* Step 3 of main(): the blended list.
Combine ==
    /\ pc = "combine"
    /\ combinedRecs' \in combineRecommendations(contentRecs, collabRecs,
                                                contentWeight, collabWeight)
    /\ pc' = "randomize"
    /\ UNCHANGED << userProfile, works, similarUsers, metricsConfig,
                    numRecommendations, randomFactor, contentWeight, collabWeight,
                    contentRecs, collabRecs, finalRecs, cos >>

\* ---- inputs of combineRecommendations
\* Longest list handed to combineRecommendations.
MaxList == 2
CombineEntries == [first : { "a", "b" }, second : { 50, 100 }]
Weights == { 0 - 50, 50, 100 }

InitCombine ==
    /\ pc = "combine"
    /\ contentRecs \in SeqUpTo(CombineEntries, MaxList)
    /\ collabRecs \in SeqUpTo(CombineEntries, MaxList)
    /\ contentWeight \in Weights
    /\ collabWeight \in Weights
    /\ userProfile = NoProfile /\ works = << >> /\ similarUsers = << >>
    /\ metricsConfig = NoConfig
    /\ numRecommendations = 0 /\ randomFactor = 0
    /\ combinedRecs = << >> /\ finalRecs = << >>
    /\ cos = NoCos

SpecCombine == InitCombine /\ [][Combine]_vars

\* ------------------------------------------------ recommendCollaborative
\* for (const auto &workId : user.likedWorks) scoreMap[workId] += user.similarity;
RECURSIVE LikedLoop(_, _, _)
LikedLoop(scoreMap, user, j) ==
    IF j > Len(user.likedWorks) THEN scoreMap
    ELSE LikedLoop(MapAdd(scoreMap, user.likedWorks[j], user.similarity), user, j + 1)

\* for (const auto &user : similarUsers) ...
RECURSIVE UsersLoop(_, _, _)
UsersLoop(scoreMap, users, i) ==
    IF i > Len(users) THEN scoreMap
    ELSE UsersLoop(LikedLoop(scoreMap, users[i], 1), users, i + 1)

\* The set of lists the call can return.
recommendCollaborative(users) == Sort(MapEntries(UsersLoop(EmptyMap, users, 1)))

\* Step 2 of main(): the collaborative list.
Collaborative ==
    /\ pc = "collab"
    /\ collabRecs' \in recommendCollaborative(similarUsers)
    /\ pc' = "combine"
    /\ UNCHANGED << userProfile, works, similarUsers, metricsConfig,
                    numRecommendations, randomFactor, contentWeight, collabWeight,
                    contentRecs, combinedRecs, finalRecs, cos >>

\* ---- inputs of recommendCollaborative
\* Most peers in a request.
MaxPeers == 2
\* Longest likedWorks list of a peer.
MaxLiked == 2
LikedIds == { "X", "Y" }
Similarities == { 80, 30, 0 - 50 }
Peers == [id : { "u" }, similarity : Similarities,
          likedWorks : SeqUpTo(LikedIds, MaxLiked)]

InitCollab ==
    /\ pc = "collab"
    /\ similarUsers \in SeqUpTo(Peers, MaxPeers)
    /\ userProfile = NoProfile /\ works = << >>
    /\ metricsConfig = NoConfig
    /\ numRecommendations = 0 /\ randomFactor = 0
    /\ contentWeight = 50 /\ collabWeight = 50
    /\ contentRecs = << >> /\ collabRecs = << >>
    /\ combinedRecs = << >> /\ finalRecs = << >>
    /\ cos = NoCos

SpecCollab == InitCollab /\ [][Collaborative]_vars

\* ------------------------------------------------------ cosineSimilarity
\* Tag values and the metrics of a work are whole-valued doubles, so the sums
\* of products below are exact.

\* for (const auto &tag : tags) norm += tag.value * tag.value;
RECURSIVE SumSquares(_, _)
SumSquares(tags, i) ==
    IF i > Len(tags) THEN 0
    ELSE tags[i].value * tags[i].value + SumSquares(tags, i + 1)

\* for (const auto &utag : user.tags)
\*     if (utag.name == tag.name) { dot += utag.value * tag.value; break; }
\* What one work tag adds to dot: the first user tag of that name, if any.
RECURSIVE MatchLoop(_, _, _)
MatchLoop(userTags, tag, k) ==
    IF k > Len(userTags) THEN 0
    ELSE IF userTags[k].name = tag.name THEN userTags[k].value * tag.value
    ELSE MatchLoop(userTags, tag, k + 1)

\* The dot product accumulated over the work's tags.
RECURSIVE DotLoop(_, _, _)
DotLoop(userTags, workTags, i) ==
    IF i > Len(workTags) THEN 0
    ELSE MatchLoop(userTags, workTags[i], 1) + DotLoop(userTags, workTags, i + 1)

\* floor(sqrt(x)) for x >= 0.
ISqrt(x) == CHOOSE r \in 0..x : r * r <= x /\ (r + 1) * (r + 1) > x

\* The locals of the call when it returns, and the value returned.  normUser
\* and normWork are the sums of squares, before lines 76-77 take their roots;
\* ret is dot / (sqrt(normUser) * sqrt(normWork)) in fixed point.
cosineSimilarity(user, work) ==
    LET dot      == DotLoop(user.tags, work.tags, 1)
        normUser == SumSquares(user.tags, 1)
        normWork == SumSquares(work.tags, 1)
    IN [ dot |-> dot, normUser |-> normUser, normWork |-> normWork,
         ret |-> IF normUser = 0 \/ normWork = 0 THEN 0
                 ELSE (dot * Scale * Scale)
                        \div ISqrt(normUser * normWork * Scale * Scale) ]

\* One call of cosineSimilarity on the profile and the first work.
Cosine ==
    /\ pc = "cosine"
    /\ cos' = cosineSimilarity(userProfile, works[1])
    /\ pc' = "cosine_done"
    /\ UNCHANGED << userProfile, works, similarUsers, metricsConfig,
                    numRecommendations, randomFactor, contentWeight, collabWeight,
                    contentRecs, collabRecs, combinedRecs, finalRecs >>

\* ---- inputs of cosineSimilarity
\* Most tags in one tag set.
MaxTags == 2
TagNames == { "x", "y" }
TagValues == { 0 - 1, 0, 1, 2 }
Tags == [name : TagNames, value : TagValues]
TagSets == SeqUpTo(Tags, MaxTags)

InitCos ==
    /\ pc = "cosine"
    /\ userProfile \in [tags : TagSets]
    /\ works \in { << [id |-> "A", tags |-> t, viewCount |-> 0, interactionTime |-> 0] >> :
                   t \in TagSets }
    /\ similarUsers = << >>
    /\ metricsConfig = NoConfig
    /\ numRecommendations = 0 /\ randomFactor = 0
    /\ contentWeight = 50 /\ collabWeight = 50
    /\ contentRecs = << >> /\ collabRecs = << >>
    /\ combinedRecs = << >> /\ finalRecs = << >>
    /\ cos = NoCos

SpecCos == InitCos /\ [][Cosine]_vars

\* ------------------------------------------------- recommendContentBased
computeWorkScore(user, work, config, maxViews, maxTime) ==
    LET score == Mul(config.weightTags, cosineSimilarity(user, work).ret)
    IN IF config.useMetrics
       THEN LET normViews == IF maxViews > 0 THEN Div(work.viewCount, maxViews) ELSE 0
                normTime  == IF maxTime > 0 THEN Div(work.interactionTime, maxTime) ELSE 0
            IN score + Mul(config.weightViews, normViews) + Mul(config.weightTime, normTime)
       ELSE score

\* double maxViews = 0; for (work) if (work.viewCount > maxViews) maxViews = ...
RECURSIVE MaxViewsLoop(_, _, _)
MaxViewsLoop(ws, i, maxViews) ==
    IF i > Len(ws) THEN maxViews
    ELSE MaxViewsLoop(ws, i + 1,
                      IF ws[i].viewCount > maxViews THEN ws[i].viewCount ELSE maxViews)

\* double maxTime = 0; for (work) if (work.interactionTime > maxTime) maxTime = ...
RECURSIVE MaxTimeLoop(_, _, _)
MaxTimeLoop(ws, i, maxTime) ==
    IF i > Len(ws) THEN maxTime
    ELSE MaxTimeLoop(ws, i + 1,
                     IF ws[i].interactionTime > maxTime THEN ws[i].interactionTime
                     ELSE maxTime)

\* for (const auto &work : works) recs.push_back({work.id, score});
ScoreLoop(user, ws, config) ==
    LET maxViews == MaxViewsLoop(ws, 1, 0)
        maxTime  == MaxTimeLoop(ws, 1, 0)
    IN [ i \in 1..Len(ws) |->
           [first |-> ws[i].id,
            second |-> computeWorkScore(user, ws[i], config, maxViews, maxTime)] ]

\* The set of lists the call can return.
recommendContentBased(user, ws, config) == Sort(ScoreLoop(user, ws, config))

\* Step 1 of main(): the content-based list.
ContentBased ==
    /\ pc = "content"
    /\ contentRecs' \in recommendContentBased(userProfile, works, metricsConfig)
    /\ pc' = "collab"
    /\ UNCHANGED << userProfile, works, similarUsers, metricsConfig,
                    numRecommendations, randomFactor, contentWeight, collabWeight,
                    collabRecs, combinedRecs, finalRecs, cos >>

\* ---- inputs of recommendContentBased
\* Most works in a catalog.
MaxWorks == 2
Tag(n, v) == [name |-> n, value |-> v]
Profiles == { [tags |-> << >>], [tags |-> << Tag("x", 1) >>],
              [tags |-> << Tag("x", 1), Tag("y", 2) >>] }
WorkTagSets == { << Tag("x", 1) >>, << Tag("y", 1) >>, << Tag("x", 2), Tag("y", 1) >> }
WorkMetrics == { << 100, 50 >>, << 10, 5 >>, << 0, 0 >> }
Works == { [id |-> i, tags |-> t, viewCount |-> m[1], interactionTime |-> m[2]] :
           i \in { "A", "B" }, t \in WorkTagSets, m \in WorkMetrics }
Configs == { [useMetrics |-> u, weightViews |-> 10, weightTime |-> 10, weightTags |-> 100] :
             u \in BOOLEAN }

InitContent ==
    /\ pc = "content"
    /\ userProfile \in Profiles
    /\ works \in SeqUpTo(Works, MaxWorks)
    /\ metricsConfig \in Configs
    /\ similarUsers = << >>
    /\ numRecommendations = 0 /\ randomFactor = 0
    /\ contentWeight = 50 /\ collabWeight = 50
    /\ contentRecs = << >> /\ collabRecs = << >>
    /\ combinedRecs = << >> /\ finalRecs = << >>
    /\ cos = NoCos

\* The two scorers, each on its own inputs.
SpecScorers == (InitContent \/ InitCollab) /\ [][ContentBased \/ Collaborative]_vars

\* ------------------------------------------------------------------ main
\* main(): the four calls in order, on the inputs read from the stream;
\* the blend weights are the literals 0.5, 0.5.
Init ==
    /\ pc = "content"
    /\ userProfile = [tags |-> << Tag("x", 1) >>]
    /\ works \in SeqUpTo(Works, 1)
    /\ metricsConfig \in Configs
    /\ similarUsers \in SeqUpTo(Peers, 1)
    /\ numRecommendations \in 0..2
    /\ randomFactor \in { 0, 2 }
    /\ contentWeight = 50 /\ collabWeight = 50
    /\ contentRecs = << >> /\ collabRecs = << >>
    /\ combinedRecs = << >> /\ finalRecs = << >>
    /\ cos = NoCos

Next == ContentBased \/ Collaborative \/ Combine \/ Randomize

Spec == Init /\ [][Next]_vars

\* ------------------------------- claims on getRandomizedRecommendations
\* The call has returned.
Returned == pc = "done"
\* randomFactor lies in [0, 1].
FactorInUnit == randomFactor \in 0..RFDen
\* floor(numRecommendations * randomFactor) for a factor in [0, 1].
FloorRandom == (numRecommendations * randomFactor) \div RFDen
\* The first k entries of the ranked list, as a set.
FirstOf(k) == { combinedRecs[j] : j \in 1..Min(k, Len(combinedRecs)) }

\* C1: for every ranked list, every numRecommendations and every randomFactor,
\* the returned sequence has at most max(0, numRecommendations) entries.
C1_LengthAtMostRequested ==
    Returned => Len(finalRecs) <= Max(0, numRecommendations)

\* C2: when more is requested than the ranked list holds (unique ids, factor in
\* [0,1]) the result has exactly len(recs) entries, each entry of recs once.
C2_ReturnsAllAvailableOnce ==
    (Returned /\ numRecommendations > Len(combinedRecs)
              /\ UniqueIds(combinedRecs) /\ FactorInUnit)
    => /\ Len(finalRecs) = Len(combinedRecs)
       /\ \A j \in 1..Len(combinedRecs) : Count(finalRecs, combinedRecs[j]) = 1

\* C3: with randomFactor 0.0, unique ids and n >= 0 the result holds exactly
\* the first min(n, len(recs)) entries of recs, each once, in any order.
C3_ZeroFactorReturnsTopN ==
    (Returned /\ UniqueIds(combinedRecs) /\ numRecommendations >= 0
              /\ randomFactor = 0)
    => /\ { finalRecs[i] : i \in 1..Len(finalRecs) } = FirstOf(numRecommendations)
       /\ \A e \in FirstOf(numRecommendations) : Count(finalRecs, e) = 1
       /\ Len(finalRecs) = Min(numRecommendations, Len(combinedRecs))

\* C3 witness: a list longer than the request, cut to the request and returned
\* in another order than ranked.
C3_Witness ==
    /\ Returned /\ randomFactor = 0 /\ UniqueIds(combinedRecs)
    /\ numRecommendations >= 2 /\ Len(combinedRecs) > numRecommendations
    /\ Len(finalRecs) = numRecommendations
    /\ finalRecs # SubSeq(combinedRecs, 1, numRecommendations)

Combined == pc = "randomize"
\* The score of id in list, 0 when the list has no entry for id.
ScoreIn(list, id) ==
    IF \E i \in 1..Len(list) : list[i].first = id
    THEN list[CHOOSE i \in 1..Len(list) : list[i].first = id].second
    ELSE 0
\* A list of entries with unique ids as a map from id to score.
ScoreMapOf(list) == [ id \in Ids(list) |-> ScoreIn(list, id) ]

\* C4: for input lists with unique ids the result has exactly one entry per id
\* of the union of the two lists, scored contentWeight * contentScore +
\* collabWeight * collabScore with a missing side counting 0.
C4_UnionWithWeightedSum ==
    (Combined /\ UniqueIds(contentRecs) /\ UniqueIds(collabRecs))
    => /\ Ids(combinedRecs) = Ids(contentRecs) \cup Ids(collabRecs)
       /\ UniqueIds(combinedRecs)
       /\ \A i \in 1..Len(combinedRecs) :
            combinedRecs[i].second =
                (contentWeight * ScoreIn(contentRecs, combinedRecs[i].first)) \div Scale
              + (collabWeight * ScoreIn(collabRecs, combinedRecs[i].first)) \div Scale

\* C4 witness: one id scored by both lists and one id scored by one list only,
\* under two different weights.
C4_Witness ==
    /\ Combined /\ UniqueIds(contentRecs) /\ UniqueIds(collabRecs)
    /\ contentWeight # collabWeight
    /\ Ids(contentRecs) \cap Ids(collabRecs) # {}
    /\ Ids(contentRecs) \ Ids(collabRecs) # {}
    /\ Len(combinedRecs) = 2

CollabReturned == pc = "combine"
\* workId is among the liked works of user.
Likes(user, workId) == \E j \in 1..Len(user.likedWorks) : user.likedWorks[j] = workId
\* Sum of similarity over the peers from index i on that like workId.
RECURSIVE SimilaritySum(_, _, _)
SimilaritySum(users, workId, i) ==
    IF i > Len(users) THEN 0
    ELSE (IF Likes(users[i], workId) THEN users[i].similarity ELSE 0)
         + SimilaritySum(users, workId, i + 1)
LikedByAny(users) == { w \in LikedIds : \E i \in 1..Len(users) : Likes(users[i], w) }

\* C6: the result has exactly one entry per id liked by at least one peer, and
\* its score is the sum of similarity over the peers whose liked items contain
\* the id.
C6_OneEntryPerLikedIdWithPeerSum ==
    CollabReturned
    => /\ Ids(collabRecs) = LikedByAny(similarUsers)
       /\ UniqueIds(collabRecs)
       /\ \A i \in 1..Len(collabRecs) :
            collabRecs[i].second = SimilaritySum(similarUsers, collabRecs[i].first, 1)

\* ------------------------------------------- claims on the two scorers
UniqueWorkIds == \A i, j \in 1..Len(works) : works[i].id = works[j].id => i = j
NonIncreasing(s) == \A i \in 1..(Len(s) - 1) : s[i].second >= s[i + 1].second

\* C7: both scorers return lists sorted non-increasing by score without a
\* repeated id; the content list has exactly one entry per item of a catalog
\* with unique ids, and is empty for an empty catalog.
C7_ScorersSortedAndUnique ==
    /\ pc \in { "collab", "combine" }
         => /\ NonIncreasing(contentRecs)
            /\ works = << >> => contentRecs = << >>
            /\ UniqueWorkIds
                 => /\ UniqueIds(contentRecs)
                    /\ Len(contentRecs) = Len(works)
                    /\ Ids(contentRecs) = { works[i].id : i \in 1..Len(works) }
    /\ CollabReturned
         => /\ NonIncreasing(collabRecs)
            /\ UniqueIds(collabRecs)

\* C7 witness: a catalog of two items with unique ids that is listed second
\* item first, after which the collaborative scorer has run too.
C7_Witness ==
    /\ CollabReturned /\ Len(works) = 2 /\ UniqueWorkIds
    /\ Len(contentRecs) = 2
    /\ contentRecs[1].first = works[2].id
    /\ contentRecs[1].second > contentRecs[2].second

\* ------------------------------------------- claims on cosineSimilarity
\* cosineSimilarity has returned.
CosReturned == pc = "cosine_done"
NonNegativeTags ==
    /\ \A i \in 1..Len(userProfile.tags) : userProfile.tags[i].value >= 0
    /\ \A i \in 1..Len(works[1].tags) : works[1].tags[i].value >= 0

\* C8: with no negative tag value (duplicate tag names allowed) the result is
\* in [0,1], that is 0 <= dot and dot^2 <= normUser^2 * normWork^2, and it is
\* exactly 0 when either sum of squares is 0.
C8_CosineInUnitInterval ==
    (CosReturned /\ NonNegativeTags)
    => /\ 0 <= cos.dot
       /\ cos.dot * cos.dot <= cos.normUser * cos.normWork
       /\ (cos.normUser = 0 \/ cos.normWork = 0) => cos.ret = 0

=============================================================================
